---- MODULE Spec2Model ----
(***************************************************************************)
(* Portfolio accounting of app.py: the SQLite store (balance, portfolio,   *)
(* history), and the Streamlit script run of each browser session, cut at  *)
(* every statement that reads or commits to the store.                     *)
(*                                                                         *)
(* REAL columns and Python floats are modelled as exact numbers: cash,     *)
(* shares, prices and equity are integers, avg_cost is a fraction <<n, d>> *)
(* in lowest terms.  IEEE rounding of the last bits is not modelled.       *)
(***************************************************************************)
EXTENDS Integers, Sequences, FiniteSets, TLC

\* ------------------------------------------------------------------ bounds

\* User events (page load, Buy click, Sell click) of the one session of Spec.
MaxEvents == 2
\* User events of each of the two sessions of SpecConc.
MaxConcEvents == 1

\* ------------------------------------------------------------------ inputs

Sessions == {1, 2}
Tickers == {"NVDA", "TSLA"}
\* Prices the oracle may quote for the order ticket and quantities the user
\* may enter (>= 1), of the one session of Spec and of the two of SpecConc;
\* prices the oracle may quote for the header's valuation.
Prices == {50, 75, 1000}
Quantities == {10, 15}
SharedPrices == {50, 80}
SharedQuantities == {10}
HeaderPrices == {80}
\* selectbox(index=0) and number_input(value=10): the widgets' defaults.
DefaultTicker == "NVDA"
DefaultShares == 10

\* The wall clock's readings, <<hour, minute>>: the hour stands for the
\* 'YYYY-MM-DD HH' prefix of the formatted time, the minute for its 'MM'.
Times == {<<0, 0>>, <<0, 30>>, <<1, 0>>}

StartingCash == 10000
\* fast_info['last_price'] of a symbol the oracle cannot price.
NaN == -1
\* fast_info['last_price'] raising (no quote data, no network).
Raised == -2
\* get_stock_data's price when the lookup raised.
NoPrice == 0

VARIABLES
  ALL_TICKERS,    \* the symbols the ticket's selectbox offers
  feed,           \* the prices the oracle quotes for the ticket
  lots,           \* the quantities the user enters
  balance,        \* table balance: set of rows [id, cash]
  portfolio,      \* table portfolio: set of rows [ticker, shares, avg_cost]
  history,        \* table history: rows [timestamp, equity] in rowid order
  now,            \* the US/Eastern wall clock, <<hour, minute>>
  pc,             \* each session's position in the script run
  click,          \* the widget values of the run: [side, ticker, shares]
  pf,             \* the run's DataFrame of get_portfolio()
  quotes,         \* the run's 'Current Price' column
  cash,           \* the run's get_cash()
  total_equity,   \* the run's total_equity
  last_log,       \* log_history: the fetched last timestamp (set of <= 1)
  ts,             \* log_history: its local now
  current_price,  \* the run's get_stock_data price
  row,            \* add_trade: the fetched row (set of <= 1)
  msg,            \* the toast or error the session shows
  evLeft,         \* user events each session may still raise
  ledger,         \* history variable: the accepted trades, in order
  applied         \* history variable: the accepted trades add_trade committed

env == <<ALL_TICKERS, feed, lots>>
store == <<balance, portfolio, history>>
locals == <<pf, quotes, cash, total_equity, last_log, ts, current_price, row>>
vars == <<ALL_TICKERS, feed, lots, balance, portfolio, history, now, pc, click, pf, quotes, cash,
          total_equity, last_log, ts, current_price, row, msg, evLeft,
          ledger, applied>>

\* ------------------------------------------------------------- arithmetic

RECURSIVE GCD(_, _)
GCD(a, b) == IF b = 0 THEN a ELSE GCD(b, a % b)

\* The fraction n/d (d > 0, n >= 0) in lowest terms.
Frac(n, d) == LET g == GCD(n, d) IN <<n \div g, d \div g>>

FracEq(x, n, d) == x[1] * d = n * x[2]

RECURSIVE SumOver(_, _)
SumOver(S, f) ==
  IF S = {} THEN 0
  ELSE LET x == CHOOSE y \in S : TRUE IN f[x] + SumOver(S \ {x}, f)

\* ------------------------------------------------------------------ store

\* c.fetchone() of SELECT ... WHERE ticker=?: the set of matching rows.
RowsOf(table, ticker) == {r \in table : r.ticker = ticker}

\* SELECT cash FROM balance WHERE id=1
CashRows == {r \in balance : r.id = 1}

\* get_cash(): the stored cash, or the default when the row is missing.
get_cash == IF CashRows = {} THEN StartingCash
            ELSE (CHOOSE r \in CashRows : TRUE).cash

\* update_cash whose UPDATE is never committed.
update_cash_uncommitted(amount) == balance

\* update_cash(amount): UPDATE balance SET cash = ? WHERE id=1.
update_cash(amount) ==
  {IF r.id = 1 THEN [r EXCEPT !.cash = amount] ELSE r : r \in balance}

\* BuyRows with the plain mean of the old average and the new price.
BuyRowsPlainMean(table, r0, ticker, shares, price) ==
  IF r0 # {}
  THEN LET r == CHOOSE x \in r0 : TRUE
           new_shares == r.shares + shares
           new_avg == Frac(r.avg_cost[1] + price * r.avg_cost[2], 2 * r.avg_cost[2])
       IN {IF x.ticker = ticker
           THEN [x EXCEPT !.shares = new_shares, !.avg_cost = new_avg]
           ELSE x : x \in table}
  ELSE table \cup {[ticker |-> ticker, shares |-> shares, avg_cost |-> <<price, 1>>]}

\* BuyRows with total_cost divided by the old share count.
BuyRowsOldShares(table, r0, ticker, shares, price) ==
  IF r0 # {}
  THEN LET r == CHOOSE x \in r0 : TRUE
           new_shares == r.shares + shares
           new_avg == Frac(r.shares * r.avg_cost[1] + shares * price * r.avg_cost[2],
                           r.avg_cost[2] * r.shares)
       IN {IF x.ticker = ticker
           THEN [x EXCEPT !.shares = new_shares, !.avg_cost = new_avg]
           ELSE x : x \in table}
  ELSE table \cup {[ticker |-> ticker, shares |-> shares, avg_cost |-> <<price, 1>>]}

\* add_trade, side BUY, on the fetched row r0 (a set of at most one row).
BuyRows(table, r0, ticker, shares, price) ==
  IF r0 # {}
  THEN LET r == CHOOSE x \in r0 : TRUE
           new_shares == r.shares + shares
           new_avg == Frac(r.shares * r.avg_cost[1] + shares * price * r.avg_cost[2],
                           r.avg_cost[2] * new_shares)
       IN {IF x.ticker = ticker
           THEN [x EXCEPT !.shares = new_shares, !.avg_cost = new_avg]
           ELSE x : x \in table}
  ELSE table \cup {[ticker |-> ticker, shares |-> shares, avg_cost |-> <<price, 1>>]}

\* SellRows with an UPDATE that has no WHERE clause.
SellRowsNoWhere(table, r0, ticker, shares) ==
  IF r0 # {}
  THEN LET r == CHOOSE x \in r0 : TRUE
           new_shares == r.shares - shares
       IN IF new_shares <= 0
          THEN {x \in table : x.ticker # ticker}
          ELSE {[x EXCEPT !.shares = new_shares] : x \in table}
  ELSE table

\* SellRows that deletes the row only below zero shares.
SellRowsKeepZero(table, r0, ticker, shares) ==
  IF r0 # {}
  THEN LET r == CHOOSE x \in r0 : TRUE
           new_shares == r.shares - shares
       IN IF new_shares < 0
          THEN {x \in table : x.ticker # ticker}
          ELSE {IF x.ticker = ticker THEN [x EXCEPT !.shares = new_shares]
                ELSE x : x \in table}
  ELSE table

\* add_trade, side SELL, on the fetched row r0.
SellRows(table, r0, ticker, shares) ==
  IF r0 # {}
  THEN LET r == CHOOSE x \in r0 : TRUE
           new_shares == r.shares - shares
       IN IF new_shares <= 0
          THEN {x \in table : x.ticker # ticker}
          ELSE {IF x.ticker = ticker THEN [x EXCEPT !.shares = new_shares]
                ELSE x : x \in table}
  ELSE table

\* SELECT timestamp FROM history ORDER BY timestamp DESC LIMIT 1
TsLess(a, b) == a[1] < b[1] \/ (a[1] = b[1] /\ a[2] < b[2])
LastTimestamp ==
  LET all == {history[i].timestamp : i \in 1..Len(history)}
  IN {t \in all : \A u \in all : ~TsLess(t, u)}

\* get_history(): SELECT * FROM history has no ORDER BY, the rows come in
\* rowid order, the order of their INSERTs.
get_history == history

\* now[:13]: the 'YYYY-MM-DD HH' prefix of a timestamp.
Bucket(t) == t[1]

\* ---------------------------------------------------------------- session

NoClick == [side |-> "NONE", ticker |-> DefaultTicker, shares |-> DefaultShares]

ResetLocals(s) ==
  /\ pf' = [pf EXCEPT ![s] = {}]
  /\ quotes' = [quotes EXCEPT ![s] = [t \in Tickers |-> 0]]
  /\ cash' = [cash EXCEPT ![s] = 0]
  /\ total_equity' = [total_equity EXCEPT ![s] = 0]
  /\ last_log' = [last_log EXCEPT ![s] = {}]
  /\ ts' = [ts EXCEPT ![s] = <<0, 0>>]
  /\ current_price' = [current_price EXCEPT ![s] = 0]
  /\ row' = [row EXCEPT ![s] = {}]

\* The script run ends: the page is rendered and waits for the next event.
EndRun(s) ==
  /\ pc' = [pc EXCEPT ![s] = "idle"]
  /\ click' = [click EXCEPT ![s] = NoClick]
  /\ ResetLocals(s)

Goto(s, label) == pc' = [pc EXCEPT ![s] = label]

\* A user event reruns the script: a page load, or a click on Buy or Sell
\* with the ticket's symbol and quantity.
UserEvent(s) ==
  /\ pc[s] = "idle"
  /\ evLeft[s] > 0
  /\ evLeft' = [evLeft EXCEPT ![s] = @ - 1]
  /\ \E c \in {NoClick} \cup [side : {"BUY", "SELL"}, ticker : ALL_TICKERS, shares : lots] :
        click' = [click EXCEPT ![s] = c]
  /\ msg' = [msg EXCEPT ![s] = ""]
  /\ Goto(s, "init_db")
  /\ UNCHANGED <<env, store, now, locals, ledger, applied>>

\* init_db that empties the balance table before it looks for the cash row.
InitDbSelectReset(s) ==
  /\ pc[s] = "init_db"
  /\ balance' = {}
  /\ Goto(s, "init_db_insert")
  /\ UNCHANGED <<env, portfolio, history, now, click, locals, msg, evLeft, ledger, applied>>

\* init_db: CREATE TABLE IF NOT EXISTS ..., then SELECT cash.
InitDbSelect(s) ==
  /\ pc[s] = "init_db"
  /\ Goto(s, IF CashRows = {} THEN "init_db_insert" ELSE "get_portfolio")
  /\ UNCHANGED <<env, store, now, click, locals, msg, evLeft, ledger, applied>>

\* init_db: INSERT INTO balance (id, cash) VALUES (1, 10000.00); the primary
\* key refuses a second row, and the IntegrityError ends the run.
InitDbInsert(s) ==
  /\ pc[s] = "init_db_insert"
  /\ IF CashRows = {}
     THEN /\ balance' = balance \cup {[id |-> 1, cash |-> StartingCash]}
          /\ Goto(s, "get_portfolio")
          /\ UNCHANGED <<click, locals>>
     ELSE /\ UNCHANGED balance
          /\ EndRun(s)
  /\ UNCHANGED <<env, portfolio, history, now, msg, evLeft, ledger, applied>>

\* pf = get_portfolio()
GetPortfolio(s) ==
  /\ pc[s] = "get_portfolio"
  /\ pf' = [pf EXCEPT ![s] = portfolio]
  /\ Goto(s, "get_cash")
  /\ UNCHANGED <<env, store, now, click, quotes, cash, total_equity, last_log, ts,
                 current_price, row, msg, evLeft, ledger, applied>>

\* The 'Value' column summed without the share counts.
PortfolioValPrices(frame, q) ==
  SumOver(frame, [r \in frame |-> IF q[r.ticker] = NaN THEN 0 ELSE q[r.ticker]])

\* sum() of the 'Value' column: pandas skips the NaN values.
PortfolioVal(frame, q) ==
  SumOver(frame, [r \in frame |-> IF q[r.ticker] = NaN THEN 0
                                  ELSE r.shares * q[r.ticker]])

\* cash = get_cash(), then the header's valuation: every held symbol is
\* priced by the oracle, which answers a price or NaN, or raises.  Nothing
\* catches the exception: the run stops and the page shows it.
GetCash(s) ==
  /\ pc[s] = "get_cash"
  /\ \E q \in [Tickers -> HeaderPrices \cup {NaN, Raised, 0}] :
        /\ \A t \in Tickers : (q[t] = 0) <=> (RowsOf(pf[s], t) = {})
        /\ IF \E t \in Tickers : q[t] = Raised
           THEN /\ msg' = [msg EXCEPT ![s] = "Exception"]
                /\ EndRun(s)
           ELSE /\ quotes' = [quotes EXCEPT ![s] = q]
                /\ total_equity' = [total_equity EXCEPT ![s] =
                                      get_cash + PortfolioVal(pf[s], q)]
                /\ cash' = [cash EXCEPT ![s] = get_cash]
                /\ Goto(s, "log_history")
                /\ UNCHANGED <<click, pf, last_log, ts, current_price, row, msg>>
  /\ UNCHANGED <<env, store, now, evLeft, ledger, applied>>

\* daily_change = total_equity - 10000
daily_change(s) == total_equity[s] - 10000

\* log_history returns: total_equity, the price column and log_history's own
\* locals are not read again in the run.
ForgetHeader(s) ==
  /\ quotes' = [quotes EXCEPT ![s] = [t \in Tickers |-> 0]]
  /\ total_equity' = [total_equity EXCEPT ![s] = 0]
  /\ last_log' = [last_log EXCEPT ![s] = {}]
  /\ ts' = [ts EXCEPT ![s] = <<0, 0>>]

\* log_history: the SELECT of the last timestamp.
LogSelect(s) ==
  /\ pc[s] = "log_history"
  /\ last_log' = [last_log EXCEPT ![s] = LastTimestamp]
  /\ Goto(s, "log_now")
  /\ UNCHANGED <<env, store, now, click, pf, quotes, cash, total_equity, ts,
                 current_price, row, msg, evLeft, ledger, applied>>

\* should_log of log_history.
ShouldLog(last, t) == ~(last # {} /\ \E l \in last : Bucket(t) = Bucket(l))

\* log_history: now = datetime.now(...).strftime(...), and should_log.  The
\* wall clock has moved on by any amount since it was last read.
LogNow(s) ==
  /\ pc[s] = "log_now"
  /\ \E t \in Times :
        /\ ~TsLess(t, now)
        /\ now' = t
        /\ IF ShouldLog(last_log[s], t)
           THEN /\ ts' = [ts EXCEPT ![s] = t]
                /\ Goto(s, "log_insert")
                /\ UNCHANGED <<quotes, total_equity, last_log>>
           ELSE /\ Goto(s, "get_stock_data")
                /\ ForgetHeader(s)
  /\ UNCHANGED <<env, store, click, pf, cash, current_price, row, msg, evLeft,
                 ledger, applied>>

\* log_history that also stores the equity as the cash.
LogInsertIntoBalance(s) ==
  /\ pc[s] = "log_insert"
  /\ history' = Append(history, [timestamp |-> ts[s], equity |-> total_equity[s]])
  /\ balance' = update_cash(total_equity[s])
  /\ Goto(s, "get_stock_data")
  /\ ForgetHeader(s)
  /\ UNCHANGED <<env, portfolio, now, click, pf, cash,
                 current_price, row, msg, evLeft, ledger, applied>>

\* log_history: INSERT INTO history (timestamp, equity), commit.
LogInsert(s) ==
  /\ pc[s] = "log_insert"
  /\ history' = Append(history, [timestamp |-> ts[s], equity |-> total_equity[s]])
  /\ Goto(s, "get_stock_data")
  /\ ForgetHeader(s)
  /\ UNCHANGED <<env, balance, portfolio, now, click, pf, cash,
                 current_price, row, msg, evLeft, ledger, applied>>

\* current_price, price_history = get_stock_data(selected_ticker)
GetStockData(s) ==
  /\ pc[s] = "get_stock_data"
  /\ \E p \in feed \cup {NoPrice} : current_price' = [current_price EXCEPT ![s] = p]
  /\ Goto(s, "buttons")
  /\ UNCHANGED <<env, store, now, click, pf, quotes, cash, total_equity, last_log, ts,
                 row, msg, evLeft, ledger, applied>>

\* The cost of one share, whatever the quantity.
CostPerShare(s) == current_price[s]

\* cost = current_price * shares
Cost(s) == current_price[s] * click[s].shares

\* The check with the price in place of the cost.
BuyAcceptedNoQuantity(s) == cash[s] >= current_price[s]

\* if cash >= cost
BuyAccepted(s) == cash[s] >= Cost(s)

\* owned = pf[pf['ticker'] == selected_ticker]['shares'].values[0]
Owned(s) == (CHOOSE r \in RowsOf(pf[s], click[s].ticker) : TRUE).shares

\* The check that only asks for a position.
SellAcceptedAnyQuantity(s) == Owned(s) >= 1

\* if owned >= shares
SellAccepted(s) == Owned(s) >= click[s].shares

Reject(s, text) ==
  /\ msg' = [msg EXCEPT ![s] = text]
  /\ EndRun(s)
  /\ UNCHANGED <<balance, ledger>>

Accept(s, amount) ==
  /\ balance' = update_cash(amount)
  /\ ledger' = Append(ledger, [side |-> click[s].side, ticker |-> click[s].ticker,
                               shares |-> click[s].shares, price |-> current_price[s]])
  /\ Goto(s, "add_trade")
  /\ pf' = [pf EXCEPT ![s] = {}]
  /\ cash' = [cash EXCEPT ![s] = 0]
  /\ UNCHANGED <<click, quotes, total_equity, last_log, ts, current_price, row, msg>>

\* The gate that lets a price of 0 through.
PriceUsableOrZero(s) == current_price[s] >= 0

\* if current_price > 0
PriceUsable(s) == current_price[s] > 0

\* The order ticket: the price gate, the Buy handler up to update_cash, the
\* Sell handler up to update_cash.
Buttons(s) ==
  /\ pc[s] = "buttons"
  /\ IF PriceUsable(s) /\ click[s].side = "BUY"
     THEN IF BuyAccepted(s)
          THEN Accept(s, cash[s] - Cost(s))
          ELSE Reject(s, "Not enough Buying Power")
     ELSE IF PriceUsable(s) /\ click[s].side = "SELL"
     THEN IF RowsOf(pf[s], click[s].ticker) # {}
          THEN IF SellAccepted(s)
               THEN Accept(s, cash[s] + Cost(s))
               ELSE Reject(s, "You only have")
          ELSE Reject(s, "You don't own this.")
     ELSE /\ EndRun(s)
          /\ UNCHANGED <<balance, ledger, msg>>
  /\ UNCHANGED <<env, portfolio, history, now, evLeft, applied>>

\* add_trade: SELECT shares, avg_cost FROM portfolio WHERE ticker=?
AddTradeSelect(s) ==
  /\ pc[s] = "add_trade"
  /\ row' = [row EXCEPT ![s] = RowsOf(portfolio, click[s].ticker)]
  /\ Goto(s, "add_trade_write")
  /\ UNCHANGED <<env, store, now, click, pf, quotes, cash, total_equity, last_log, ts,
                 current_price, msg, evLeft, ledger, applied>>

\* add_trade: the UPDATE, INSERT or DELETE and the commit, then the toast and
\* st.rerun().  An INSERT for a ticker that has a row by now raises
\* IntegrityError: nothing is committed and the run ends.
AddTradeWrite(s) ==
  /\ pc[s] = "add_trade_write"
  /\ IF click[s].side = "BUY" /\ row[s] = {} /\ RowsOf(portfolio, click[s].ticker) # {}
     THEN /\ EndRun(s)
          /\ UNCHANGED <<portfolio, msg, applied>>
     ELSE /\ portfolio' =
               IF click[s].side = "BUY"
               THEN BuyRows(portfolio, row[s], click[s].ticker, click[s].shares,
                            current_price[s])
               ELSE SellRows(portfolio, row[s], click[s].ticker, click[s].shares)
          /\ msg' = [msg EXCEPT ![s] = IF click[s].side = "BUY" THEN "Bought" ELSE "Sold"]
          /\ applied' = applied + 1
          /\ Goto(s, "init_db")
          /\ click' = [click EXCEPT ![s] = NoClick]
          /\ ResetLocals(s)
  /\ UNCHANGED <<env, balance, history, now, evLeft, ledger>>

\* An uncaught exception (sqlite3.OperationalError) or the end of the server
\* process stops the run where it is.
Crash(s) ==
  /\ pc[s] # "idle"
  /\ EndRun(s)
  /\ UNCHANGED <<env, store, now, msg, evLeft, ledger, applied>>

Next ==
  \/ \E s \in Sessions :
       \/ UserEvent(s)
       \/ InitDbSelect(s)
       \/ InitDbInsert(s)
       \/ GetPortfolio(s)
       \/ GetCash(s)
       \/ LogSelect(s)
       \/ LogNow(s)
       \/ LogInsert(s)
       \/ GetStockData(s)
       \/ Buttons(s)
       \/ AddTradeSelect(s)
       \/ AddTradeWrite(s)
       \/ Crash(s)

InitLocals ==
  /\ pc = [s \in Sessions |-> "idle"]
  /\ click = [s \in Sessions |-> NoClick]
  /\ pf = [s \in Sessions |-> {}]
  /\ quotes = [s \in Sessions |-> [t \in Tickers |-> 0]]
  /\ cash = [s \in Sessions |-> 0]
  /\ total_equity = [s \in Sessions |-> 0]
  /\ last_log = [s \in Sessions |-> {}]
  /\ ts = [s \in Sessions |-> <<0, 0>>]
  /\ current_price = [s \in Sessions |-> 0]
  /\ row = [s \in Sessions |-> {}]
  /\ msg = [s \in Sessions |-> ""]

\* No database file yet: the first init_db creates the tables.
FreshStore ==
  /\ balance = {}
  /\ portfolio = {}
  /\ history = <<>>
  /\ now = <<0, 0>>
  /\ ledger = <<>>
  /\ applied = 0

\* The database file a session leaves that bought 10 NVDA at 50 in its first
\* run (a state Spec reaches: FirstBuyReached).
FirstBuyStore ==
  /\ balance = {[id |-> 1, cash |-> 9500]}
  /\ portfolio = {[ticker |-> "NVDA", shares |-> 10, avg_cost |-> <<50, 1>>]}
  /\ history = <<[timestamp |-> <<0, 0>>, equity |-> StartingCash]>>
  /\ now = <<0, 0>>
  /\ ledger = <<[side |-> "BUY", ticker |-> "NVDA", shares |-> 10, price |-> 50]>>
  /\ applied = 1

\* One browser session on a database file, new or left by a first buy.
Init ==
  /\ InitLocals
  /\ FreshStore \/ FirstBuyStore
  /\ ALL_TICKERS = Tickers
  /\ feed = Prices
  /\ lots = Quantities
  /\ evLeft = [s \in Sessions |-> IF s = 1 THEN MaxEvents ELSE 0]

\* Two browser sessions on the same database file, new or left by a first buy.
InitConc ==
  /\ InitLocals
  /\ FreshStore \/ FirstBuyStore
  /\ ALL_TICKERS = {DefaultTicker}
  /\ feed = SharedPrices
  /\ lots = SharedQuantities
  /\ evLeft = [s \in Sessions |-> MaxConcEvents]

\* The orders of the worked example: the symbol, quantity and price the ticket
\* holds at each click.
TraceOrders ==
  << [side |-> "BUY", ticker |-> DefaultTicker, shares |-> 10, price |-> 50],
     [side |-> "BUY", ticker |-> DefaultTicker, shares |-> 10, price |-> 70],
     [side |-> "SELL", ticker |-> DefaultTicker, shares |-> 15, price |-> 80] >>

\* One session on a new database; the oracle quotes the prices and the user
\* enters the quantities of the worked example, in any order, one event per
\* order.
InitTrace ==
  /\ InitLocals
  /\ FreshStore
  /\ ALL_TICKERS = {TraceOrders[i].ticker : i \in 1..Len(TraceOrders)}
  /\ feed = {TraceOrders[i].price : i \in 1..Len(TraceOrders)}
  /\ lots = {TraceOrders[i].shares : i \in 1..Len(TraceOrders)}
  /\ evLeft = [s \in Sessions |-> IF s = 1 THEN Len(TraceOrders) ELSE 0]

Spec == Init /\ [][Next]_vars
SpecConc == InitConc /\ [][Next]_vars
SpecTrace == InitTrace /\ [][Next]_vars

\* ----------------------------------------------------------------- claims

Idle == \A s \in Sessions : pc[s] = "idle"

\* The stored rows of a ticker, and its only row.
Position(t) == RowsOf(portfolio, t)
TheRow(rows) == CHOOSE r \in rows : TRUE
OthersUnchanged(t) ==
  {r \in portfolio' : r.ticker # t} = {r \in portfolio : r.ticker # t}

\* The Buy or Sell handler of s passes its check and commits update_cash.
BuyDebits(s) ==
  pc[s] = "buttons" /\ pc'[s] = "add_trade" /\ click[s].side = "BUY"
SellCredits(s) ==
  pc[s] = "buttons" /\ pc'[s] = "add_trade" /\ click[s].side = "SELL"
\* add_trade of s commits its write.
BuyWrites(s) ==
  pc[s] = "add_trade_write" /\ pc'[s] = "init_db" /\ click[s].side = "BUY"
SellWrites(s) ==
  pc[s] = "add_trade_write" /\ pc'[s] = "init_db" /\ click[s].side = "SELL"

\* The accepted trades of ticker t, in order.
TradesOf(t) == SelectSeq(ledger, LAMBDA e : e.ticker = t)
RECURSIVE SumInts(_)
SumInts(seq) == IF seq = <<>> THEN 0 ELSE Head(seq) + SumInts(Tail(seq))
SumSeq(seq, f(_)) == SumInts([i \in 1..Len(seq) |-> f(seq[i])])
QtyOf(e) == e.shares
ValueOf(e) == e.shares * e.price
FlowOf(e) == IF e.side = "BUY" THEN 0 - e.shares * e.price ELSE e.shares * e.price
OnlyBuys(seq) == \A i \in 1..Len(seq) : seq[i].side = "BUY"

\* C1: from cash = 10000 and no positions on, cash is never negative in a single
\* session, and a Buy whose cost exceeds the stored cash ends the run with
\* cash and every position row unchanged.
C1_CashNeverNegative ==
  /\ [](\A r \in balance : r.cash >= 0)
  /\ [][\A s \in Sessions :
          (pc[s] = "buttons" /\ click[s].side = "BUY" /\ Cost(s) > get_cash)
          => (balance' = balance /\ portfolio' = portfolio /\ pc'[s] = "idle")]_vars

C1_Witness ==
  \E s \in Sessions : pc[s] = "idle" /\ msg[s] = "Not enough Buying Power"
                      /\ get_cash < 1000 /\ balance # {}

\* C2: a Sell of a symbol with no position, or of more shares than held, ends
\* the run with cash and every position row unchanged, and no stored position
\* has shares < 0.
C2_SellRejected ==
  /\ [](\A r \in portfolio : r.shares >= 0)
  /\ [][\A s \in Sessions :
          (pc[s] = "buttons" /\ click[s].side = "SELL"
             /\ (Position(click[s].ticker) = {}
                   \/ click[s].shares > TheRow(Position(click[s].ticker)).shares))
          => (balance' = balance /\ portfolio' = portfolio /\ pc'[s] = "idle")]_vars

C2_Witness ==
  \E s \in Sessions : pc[s] = "idle" /\ msg[s] = "You only have" /\ portfolio # {}

\* C3: the cash update and the position update of a trade commit as one unit:
\* every step that changes the stored cash changes the position table, and
\* every step that changes the position table changes the stored cash.
C3_OneUnit == [][(get_cash' # get_cash) <=> (portfolio' # portfolio)]_vars

\* C4: when every accepted trade is a BUY of one symbol and each has been
\* committed by add_trade, the position holds the sum of the quantities at the
\* volume-weighted mean price, whatever the interleaving of the two sessions.
C4_ConcurrentBuys ==
  \A t \in Tickers :
    (applied = Len(ledger) /\ TradesOf(t) # <<>> /\ OnlyBuys(TradesOf(t)))
    => /\ Position(t) # {}
       /\ \A r \in Position(t) :
            /\ r.shares = SumSeq(TradesOf(t), QtyOf)
            /\ r.avg_cost[1] * SumSeq(TradesOf(t), QtyOf)
                 = SumSeq(TradesOf(t), ValueOf) * r.avg_cost[2]

\* C5: once add_trade has committed every accepted trade, the stored cash is
\* the starting cash minus the cost of every accepted buy plus the proceeds of
\* every accepted sell, whatever the interleaving of the two sessions.
C5_NoLostCashUpdate ==
  (applied = Len(ledger) /\ balance # {})
  => get_cash = StartingCash + SumSeq(ledger, FlowOf)

\* C6: a successful buy of q at p decreases cash by q*p; the symbol's row
\* (s0, c0) becomes (s0 + q, (s0*c0 + q*p)/(s0 + q)), or the row (q, p) is
\* created; the rows of other symbols are unchanged.
C6_BuyEffect ==
  [][\A s \in Sessions :
       LET t == click[s].ticker
           q == click[s].shares
           p == current_price[s]
       IN /\ BuyDebits(s) => get_cash' = get_cash - q * p
          /\ BuyWrites(s) =>
               /\ OthersUnchanged(t)
               /\ Cardinality(RowsOf(portfolio', t)) = 1
               /\ LET new == TheRow(RowsOf(portfolio', t))
                  IN IF Position(t) = {}
                     THEN new.shares = q /\ new.avg_cost = <<p, 1>>
                     ELSE LET old == TheRow(Position(t))
                          IN /\ new.shares = old.shares + q
                             /\ new.avg_cost[1] * (old.avg_cost[2] * (old.shares + q))
                                  = (old.shares * old.avg_cost[1] + q * p * old.avg_cost[2])
                                      * new.avg_cost[2]]_vars

C6_Witness ==
  /\ Idle /\ applied = 2 /\ Len(ledger) = 2
  /\ ledger[1].side = "BUY" /\ ledger[2].side = "BUY"
  /\ ledger[1].ticker = ledger[2].ticker
  /\ ledger[1].price # ledger[2].price
  /\ \E r \in portfolio : r.avg_cost[2] # 1

\* Left fold of add_trade's BUY over a sequence of buys of one symbol.
RECURSIVE FoldBuys(_, _)
FoldBuys(table, seq) ==
  IF seq = <<>> THEN table
  ELSE FoldBuys(BuyRows(table, RowsOf(table, Head(seq).ticker), Head(seq).ticker,
                        Head(seq).shares, Head(seq).price),
                Tail(seq))

Orders(n) == {f \in [1..n -> 1..n] : \A i, j \in 1..n : f[i] = f[j] => i = j}

\* C7: after accepted buys only of a symbol, its shares are the sum of the
\* quantities and its avg_cost is sum(q_i*p_i)/sum(q_i), and add_trade gives
\* this row for every order of the same buys.
C7_WeightedMean ==
  \A t \in Tickers :
    LET buys == TradesOf(t)
    IN (applied = Len(ledger) /\ buys # <<>> /\ OnlyBuys(buys))
       => /\ Position(t) # {}
          /\ \A r \in Position(t) :
               /\ r.shares = SumSeq(buys, QtyOf)
               /\ r.avg_cost[1] * SumSeq(buys, QtyOf)
                    = SumSeq(buys, ValueOf) * r.avg_cost[2]
          /\ \A f \in Orders(Len(buys)) :
               FoldBuys({}, [i \in 1..Len(buys) |-> buys[f[i]]]) = Position(t)

C7_Witness ==
  \E t \in Tickers :
    /\ applied = Len(ledger) /\ Len(TradesOf(t)) = 2 /\ OnlyBuys(TradesOf(t))
    /\ TradesOf(t)[1].price # TradesOf(t)[2].price
    /\ TradesOf(t)[1].shares # TradesOf(t)[2].shares

\* C8: a successful sell of q <= held at p increases cash by q*p, reduces the
\* symbol's shares to held - q, and leaves the avg_cost of what remains and
\* the rows of other symbols unchanged.
C8_SellEffect ==
  [][\A s \in Sessions :
       LET t == click[s].ticker
           q == click[s].shares
           p == current_price[s]
       IN /\ SellCredits(s) => get_cash' = get_cash + q * p
          /\ (SellWrites(s) /\ Position(t) # {}) =>
               LET old == TheRow(Position(t))
               IN /\ OthersUnchanged(t)
                  /\ q <= old.shares
                  /\ IF old.shares - q > 0
                     THEN RowsOf(portfolio', t) =
                            {[ticker |-> t, shares |-> old.shares - q,
                              avg_cost |-> old.avg_cost]}
                     ELSE RowsOf(portfolio', t) = {}]_vars

C8_Witness ==
  /\ Idle /\ applied = 3 /\ Len(ledger) = 3
  /\ ledger[2].side = "BUY" /\ ledger[3].side = "SELL"
  /\ ledger[2].ticker = ledger[3].ticker /\ ledger[1].ticker # ledger[3].ticker
  /\ ledger[2].price # ledger[3].price
  /\ \E r \in portfolio : r.ticker = ledger[3].ticker /\ r.shares = 5
                          /\ r.avg_cost = <<ledger[2].price, 1>>
  /\ \E r \in portfolio : r.ticker = ledger[1].ticker
  /\ \E s \in Sessions : msg[s] = "Sold"

\* C9: the position table holds at most one row per symbol, each with
\* shares > 0 and avg_cost > 0, and a sell of exactly the held quantity
\* deletes the symbol's row.
C9_PositionRows ==
  /\ [](/\ \A t \in Tickers : Cardinality(Position(t)) <= 1
        /\ \A r \in portfolio : r.shares > 0 /\ r.avg_cost[1] > 0 /\ r.avg_cost[2] > 0)
  /\ [][\A s \in Sessions :
          (SellWrites(s) /\ Position(click[s].ticker) # {}
             /\ TheRow(Position(click[s].ticker)).shares = click[s].shares)
          => RowsOf(portfolio', click[s].ticker) = {}]_vars

C9_Witness ==
  /\ Idle /\ applied = 2 /\ Len(ledger) = 2
  /\ ledger[1].side = "BUY" /\ ledger[2].side = "SELL"
  /\ ledger[1].ticker = ledger[2].ticker /\ ledger[1].shares = ledger[2].shares
  /\ portfolio = {}

\* C10: the history table holds at most one row per hour bucket, after the
\* log_history calls of any page loads of the sessions sharing the store.
C10_OneRowPerBucket ==
  \A i, j \in 1..Len(history) :
    Bucket(history[i].timestamp) = Bucket(history[j].timestamp) => i = j

\* C11: when get_stock_data has yielded a price <= 0, the run of a Buy or a
\* Sell click ends at the ticket with the stored cash, every position row and
\* the history unchanged and no trade accepted.
C11_NoPriceNoTrade ==
  [][\A s \in Sessions :
       (pc[s] = "buttons" /\ current_price[s] <= 0 /\ click[s].side \in {"BUY", "SELL"})
       => (store' = store /\ ledger' = ledger /\ pc'[s] = "idle")]_vars

C11_Witness ==
  \E s \in Sessions :
    /\ pc[s] = "buttons" /\ current_price[s] = NoPrice /\ click[s].side = "SELL"
    /\ RowsOf(pf[s], click[s].ticker) # {} /\ SellAccepted(s)
    /\ pf[s] = portfolio /\ cash[s] = get_cash

\* The run of s has computed total_equity and not yet left log_history.
Valued(s) == pc[s] \in {"log_history", "log_now", "log_insert"}

\* The market value of the stored position of t at the quotes of s; a symbol
\* the oracle answered NaN for counts 0.
MarketValue(s, t) ==
  IF Position(t) = {} \/ quotes[s][t] = NaN THEN 0
  ELSE TheRow(Position(t)).shares * quotes[s][t]

\* C12: the total_equity of a page load is the stored cash plus the sum over
\* the stored positions of shares * current price, so it is a function of the
\* store and the prices alone, and the account P/L the header reports is
\* total_equity minus the starting cash of 10000.
C12_TotalEquity ==
  \A s \in Sessions :
    Valued(s) =>
      /\ total_equity[s]
           = get_cash + SumOver(Tickers, [t \in Tickers |-> MarketValue(s, t)])
      /\ daily_change(s)
           = get_cash + SumOver(Tickers, [t \in Tickers |-> MarketValue(s, t)])
               - StartingCash

C12_Witness ==
  \E s \in Sessions :
    /\ Valued(s) /\ Cardinality(portfolio) = 2
    /\ \A r \in portfolio : quotes[s][r.ticker] \in HeaderPrices /\ r.shares > 1
    /\ get_cash < StartingCash /\ total_equity[s] > get_cash

\* The run of s takes the header's valuation step with positions held (and
\* is not stopped from outside).
ValuationStep(s) ==
  pc[s] = "get_cash" /\ pf[s] # {} /\ ~(pc'[s] = "idle" /\ msg'[s] = msg[s])

\* C13: a valuation with positions held is always produced, also when the
\* oracle cannot price a held symbol: the run goes on to log_history, every
\* row is kept, and total_equity is the cash plus the value of the priced
\* rows, an unpriced row counting 0.
C13_UnpricedRowCountsZero ==
  [][\A s \in Sessions :
       ValuationStep(s) =>
         /\ pc'[s] = "log_history"
         /\ pf'[s] = pf[s]
         /\ total_equity'[s] =
              get_cash + SumOver(pf[s], [r \in pf[s] |->
                                   IF quotes'[s][r.ticker] \in HeaderPrices
                                   THEN r.shares * quotes'[s][r.ticker] ELSE 0])]_vars

\* C14: no step of a script run without a Buy or Sell click changes the
\* stored cash or a position row, however many such runs there are; the only
\* change to the history is one appended snapshot.
C14_LoadKeepsAccount ==
  [][\A s \in Sessions :
       (pc[s] # "idle" /\ click[s].side = "NONE")
       => /\ get_cash' = get_cash
          /\ portfolio' = portfolio
          /\ \/ history' = history
             \/ /\ Len(history') = Len(history) + 1
                /\ SubSeq(history', 1, Len(history)) = history]_vars

C14_Witness ==
  \E s \in Sessions :
    /\ pc[s] = "get_stock_data" /\ click[s].side = "NONE" /\ evLeft[s] = 0
    /\ portfolio # {} /\ Len(history) = 2
    /\ history[2].equity # get_cash

\* Session s takes a step of init_db.
InitDbStep(s) == pc[s] \in {"init_db", "init_db_insert"} /\ pc'[s] # pc[s]

\* C15: init_db writes the cash row 10000 only when the balance table has no
\* row, and the row is never removed, so the cash is initialised once; every
\* other execution of init_db, after any trades and in either session, leaves
\* the balance, the positions and the history unchanged.
C15_InitOnce ==
  /\ [](Cardinality(balance) <= 1)
  /\ [][balance # {} => balance' # {}]_vars
  /\ [][\A s \in Sessions :
          InitDbStep(s) =>
            /\ get_cash' = get_cash
            /\ portfolio' = portfolio /\ history' = history
            /\ IF balance = {}
               THEN balance' \in {balance, {[id |-> 1, cash |-> StartingCash]}}
               ELSE balance' = balance]_vars

C15_Witness ==
  \E s \in Sessions :
    /\ pc[s] = "get_portfolio" /\ msg[s] = "Bought" /\ evLeft[s] = 0
    /\ get_cash # StartingCash /\ Len(history) >= 1 /\ applied = 2

\* C16: get_history returns the snapshots in ascending order of timestamp
\* after the log_history calls of any page loads, and no step modifies or
\* removes a row the history holds.
C16_HistoryAscending ==
  /\ [](\A i, j \in 1..Len(get_history) :
          i < j => ~TsLess(get_history[j].timestamp, get_history[i].timestamp))
  /\ [][/\ Len(history') >= Len(history)
        /\ SubSeq(history', 1, Len(history)) = history]_vars

\* The store holds this cash and this one position of the default symbol.
StoreIs(c, shares, avg) ==
  /\ balance = {[id |-> 1, cash |-> c]}
  /\ portfolio = {[ticker |-> DefaultTicker, shares |-> shares, avg_cost |-> <<avg, 1>>]}

\* C17: from cash 10000 and no positions, Buy 10 at 50 leaves cash 9500 and
\* the position (10, 50); Buy 10 more at 70 leaves 8800 and (20, 60); Sell 15
\* at 80 leaves 10000 and (5, 60); the valuation at price 80 that follows
\* gives total_equity 10400.
C17_WorkedExample ==
  /\ (ledger = SubSeq(TraceOrders, 1, 1) /\ applied = 1) => StoreIs(9500, 10, 50)
  /\ (ledger = SubSeq(TraceOrders, 1, 2) /\ applied = 2) => StoreIs(8800, 20, 60)
  /\ (ledger = TraceOrders /\ applied = 3) =>
       /\ StoreIs(10000, 5, 60)
       /\ \A s \in Sessions :
            (Valued(s) /\ quotes[s][DefaultTicker] = 80) => total_equity[s] = 10400

C17_Witness ==
  \E s \in Sessions :
    /\ ledger = TraceOrders /\ applied = 3
    /\ Valued(s) /\ quotes[s][DefaultTicker] = 80 /\ msg[s] = "Sold"

\* The product of the avg_cost denominators of the rows, and the sum of
\* shares * avg_cost over the rows as a numerator over that product.
RECURSIVE DenOf(_)
DenOf(rows) ==
  IF rows = {} THEN 1
  ELSE LET r == CHOOSE x \in rows : TRUE IN r.avg_cost[2] * DenOf(rows \ {r})
BasisNum(rows) ==
  SumOver(rows, [r \in rows |-> r.shares * r.avg_cost[1] * (DenOf(rows) \div r.avg_cost[2])])

\* C18: the add_trade of an accepted buy of q at p raises shares * avg_cost of
\* the symbol by q * p, the amount update_cash took from the cash, and leaves
\* the other rows alone; so when only buys were accepted and each was
\* committed, cash + sum of shares * avg_cost is the starting 10000.
C18_CostBasisKept ==
  /\ []((applied = Len(ledger) /\ OnlyBuys(ledger) /\ balance # {})
          => get_cash * DenOf(portfolio) + BasisNum(portfolio)
               = StartingCash * DenOf(portfolio))
  /\ [][\A s \in Sessions :
          /\ BuyDebits(s) =>
               get_cash' = get_cash - click[s].shares * current_price[s]
          /\ BuyWrites(s) =>
               /\ OthersUnchanged(click[s].ticker)
               /\ BasisNum(RowsOf(portfolio', click[s].ticker))
                      * DenOf(Position(click[s].ticker))
                    = (BasisNum(Position(click[s].ticker))
                         + click[s].shares * current_price[s]
                             * DenOf(Position(click[s].ticker)))
                      * DenOf(RowsOf(portfolio', click[s].ticker))]_vars

C18_Witness ==
  \E s \in Sessions :
    /\ pc[s] = "idle" /\ msg[s] = "Not enough Buying Power"
    /\ applied = 2 /\ Len(ledger) = 2 /\ OnlyBuys(ledger)
    /\ \E r \in portfolio : r.avg_cost[2] # 1

\* The accepted trades of ticker t of one side.
SideOf(t, side) == SelectSeq(TradesOf(t), LAMBDA e : e.side = side)

\* C19: for every symbol, once add_trade has committed every accepted trade,
\* the shares whose sell proceeds were credited to the cash are at most the
\* shares bought, whatever the interleaving of the two sessions.
C19_NoOversell ==
  \A t \in Tickers :
    applied = Len(ledger)
    => SumSeq(SideOf(t, "SELL"), QtyOf) <= SumSeq(SideOf(t, "BUY"), QtyOf)

\* The store of FirstBuyStore is one a single session leaves.
FirstBuyReached ==
  /\ Idle
  /\ balance = {[id |-> 1, cash |-> 9500]}
  /\ portfolio = {[ticker |-> "NVDA", shares |-> 10, avg_cost |-> <<50, 1>>]}
  /\ history = <<[timestamp |-> <<0, 0>>, equity |-> StartingCash]>>
  /\ now = <<0, 0>>
  /\ ledger = <<[side |-> "BUY", ticker |-> "NVDA", shares |-> 10, price |-> 50]>>
  /\ applied = 1

====
